---- MODULE Spec2Model ----
(***************************************************************************)
(* A model of the virtual-method-table hook manager of src/src/vmthook.rs  *)
(* and of the generic dispatcher of src/src/vmthook/thunk.rs.              *)
(*                                                                         *)
(* Memory of the target: each instance's first word (word), the target's   *)
(* own function table (orig_mem).  Memory of the library: the overlays     *)
(* (HookInstance values behind Arc<Mutex<..>>), the process-wide registry  *)
(* HOOKED_INSTANCES, the thread-local JIT modules, the boxed closures and  *)
(* the live HookFunction handles.  Every thread walks through the          *)
(* statements of the operation it is running (th[t].pc); the dispatches    *)
(* whose closure is itself running an operation wait on stack[t].          *)
(* The address-plan evaluator of src/src/method.rs is the operator         *)
(* execute_plan, applied to the call recorded in plan.                     *)
(***************************************************************************)
EXTENDS Integers, Sequences, FiniteSets, TLC

\* ------------------------------------------------------------------ bounds
\* Number of non-null entries of the target's function table.
TableLen == 2
\* Overlays built in one run (each takes a fresh heap address).
MaxOverlays == 2
\* Operations started in one run of the interleaved specification.
MaxConcOps == 3
\* Dispatches nested on one thread's stack.
MaxDepth == 2
\* Bits of a pointer (usize, isize) in the address plans.
PtrBits == 16
\* Actions in one address plan.
MaxPlanLen == 2

\* ------------------------------------------------------------------ universe
Threads == {"t1", "t2"}
NoThread == "-"
Instances == {"x", "y"}
\* The instance the caller hooks; y shares x's table and is only called.
Hooked == {"x"}
\* Closure expressions of the caller: each has its own TypeId.
\*   "delegate": |ctx, this, a, b| call_original(ctx, this, (a, b))
\*   "const7"  : |_ctx, _this, _a, _b| 7
ClosureTypes == {"delegate", "const7"}
\* Argument tuples of the virtual calls (two arguments, so order shows).
ArgTuples == {<<1, 2>>}
\* Closure expressions that use the library while they run (they capture a
\* shared cell of handles); each returns 7 unless it says otherwise.
\*   "call_slot1"  : |_ctx, this, a, b| this.slot1(a, b)   (a virtual call)
\*   "drop_handle" : |_ctx, _this, _a, _b| { drop(cell.take()); 7 }
\*   "install_hook": |_ctx, this, _a, _b| { cell.put(HookFunction::new(this, 1, const7)); 7 }
ReentrantTypes == {"call_slot1", "drop_handle", "install_hook"}
\* Slots an install may name: in range, == len, > len.
InstallSlots == 0..(TableLen + 1)
\* Slots of the table a host call may go through.
CallSlots == 0..(TableLen - 1)

\* Addresses of function tables: 0 is the target's own table, o >= 1 is the
\* heap block of the clone (new_table) of overlay o.
OrigAddr == 0
CloneAddr(o) == o

\* ------------------------------------------------------------------ function pointers
FnPtr(kind, thr, ctype, idx) == [kind |-> kind, thr |-> thr, ctype |-> ctype, idx |-> idx]
\* The null word that ends a table.
Null == FnPtr("null", NoThread, "-", 0)
\* Whatever a read of freed or out-of-bounds memory gives.
Junk == FnPtr("junk", NoThread, "-", 0)
\* The target's own function at slot k.
OrigFn(k) == FnPtr("orig", NoThread, "-", k)
\* The stub emitted in thread t's JIT module for closure type c with slot id baked in.
Trampoline(t, c, id) == FnPtr("tramp", t, c, id)

\* A boxed closure (Box::into_raw): at most one per thread and closure type,
\* because the JIT module defines each unique_name once.
Box(t, c) == [thr |-> t, ctype |-> c]
NoBox == [thr |-> NoThread, ctype |-> "-"]

\* What the target's own function at slot k returns for (this, args).
OrigResult(k, this, args) == [fn |-> k, this |-> this, a |-> args[1], b |-> args[2]]
NoResult == [fn |-> -1, this |-> "-", a |-> 0, b |-> 0]
ConstResult == [fn |-> -2, this |-> "-", a |-> 7, b |-> 0]
CrashResult == [fn |-> -3, this |-> "-", a |-> 0, b |-> 0]

VARIABLES
    word,           \* [Instances -> address]: the first word of each instance
    orig_mem,       \* the target's table: TableLen entries, then the null word
    overlays,       \* sequence of HookInstance values, indexed by overlay id
    registry,       \* HOOKED_INSTANCES: [Instances -> overlay id, 0 = no entry]
    registry_lock,  \* holder of the registry mutex
    jit,            \* [Threads -> set of closure types defined in the thread's JITModule]
    boxes,          \* boxed closures allocated and not freed
    handles,        \* live HookFunction values
    th,             \* [Threads -> the thread's position and locals]
    nops,           \* operations started (counted in the interleaved runs)
    snap,           \* the state an install started from
    stack,          \* [Threads -> the dispatches whose closure is running an operation]
    plan,           \* the call of execute_plan under way
    emit            \* the trampoline being generated for a closure, and its call

vars == <<word, orig_mem, overlays, registry, registry_lock, jit, boxes, handles, th, nops, snap, stack, plan, emit>>

\* ------------------------------------------------------------------ memory reads
\* A constructor that takes original_table from the instance after the swap.
HookInstance_after_swap(i, orig, tab) ==
    [instance |-> i, original_table |-> CloneAddr(Len(overlays) + 1), new_table |-> tab,
     closures |-> [k \in 0..TableLen |-> NoBox],
     strong |-> 1, lock |-> NoThread, st |-> "alive"]

\* struct HookInstance plus the counters of the Arc<Mutex<..>> around it.
\*   st = "alive": the value exists; "restored": Drop::drop has run, the fields
\*   are not yet released; "freed": new_table and closures are released.
HookInstance(i, orig, tab) ==
    [instance |-> i, original_table |-> orig, new_table |-> tab,
     closures |-> [k \in 0..TableLen |-> NoBox],
     strong |-> 1, lock |-> NoThread, st |-> "alive"]

\* The word at index k of the table at address a: *table.wrapping_add(k).
\* A word outside the block, or of a block that was released, is indeterminate.
ReadEntry(a, k) ==
    IF a = OrigAddr
    THEN IF k < Len(orig_mem) THEN orig_mem[k + 1] ELSE Junk
    ELSE IF overlays[a].st # "freed" /\ k < Len(overlays[a].new_table)
         THEN overlays[a].new_table[k + 1]
         ELSE Junk

\* Indexes below n at which the table at a holds the null word.
NullsBelow(a, n) == {k \in 0..(n - 1) : ReadEntry(a, k) = Null}

\* count_funcs: the index of the first null word.  The scan of a block that
\* holds no null word runs past its end; what it returns is then any length
\* the words behind the block allow (bounded here by TableLen + 1).
count_funcs(a) ==
    LET n == IF a = OrigAddr THEN Len(orig_mem)
             ELSE IF overlays[a].st # "freed" THEN Len(overlays[a].new_table) ELSE 0
    IN  IF NullsBelow(a, n) # {}
        THEN {CHOOSE k \in NullsBelow(a, n) : \A j \in NullsBelow(a, n) : k <= j}
        ELSE n..(TableLen + 1)

\* get_table: the first word of the instance.
get_table(i) == word[i]

\* slice::from_raw_parts(original_table, table_len).to_vec()
CopyTable(a, n) == [k \in 1..n |-> ReadEntry(a, k - 1)]

\* ------------------------------------------------------------------ HookInstance methods
\* ensure_range: Ok (TRUE) unless index > max.
ensure_range(index, max) == ~(index > max)

\* hook_function: the range check, then the bounds-checked store new_table[index] = f.
hook_function(h, index, f) ==
    IF ~ensure_range(index, Len(h.new_table))
    THEN [res |-> "SlotOutOfRange", h |-> h]
    ELSE IF index >= Len(h.new_table)
         THEN [res |-> "panic", h |-> h]
         ELSE [res |-> "ok", h |-> [h EXCEPT !.new_table[index + 1] = f]]

\* A restore that copies the whole original table back.
unhook_function_all(h, index) ==
    [res |-> "ok", h |-> [h EXCEPT !.new_table = CopyTable(h.original_table, Len(h.new_table))]]

\* A restore that leaves the entry as it is.
unhook_function_keep(h, index) == [res |-> "ok", h |-> h]

\* unhook_function: the range check, then new_table[index] = original_table[index].
unhook_function(h, index) ==
    IF ~ensure_range(index, Len(h.new_table))
    THEN [res |-> "SlotOutOfRange", h |-> h]
    ELSE IF index >= Len(h.new_table)
         THEN [res |-> "panic", h |-> h]
         ELSE [res |-> "ok",
               h |-> [h EXCEPT !.new_table[index + 1] = ReadEntry(h.original_table, index)]]

\* closures.insert(index, closure)
closures_insert(h, index, b) == [h EXCEPT !.closures[index] = b]

\* closures.remove(&index): the raw pointer leaves the map; the box is not released.
closures_remove(h, index) == [h EXCEPT !.closures[index] = NoBox]

\* An original_function that reads the clone.
original_function_clone(h, index) == h.new_table[index + 1]

\* original_function: original_table[index].
original_function(h, index) == ReadEntry(h.original_table, index)

\* A lookup that takes the closure of slot 0 whatever the index.
closure_first(h, index) == h.closures[0]

\* closure(index): self.closures[&index]; NoBox stands for the missing key.
closure(h, index) == h.closures[index]

\* make_trampoline in thread t's module: declare_function(unique_name) returns
\* the id the name already has, and define_function refuses a second
\* definition of it; otherwise the stub with the slot id baked in.
make_trampoline(t, c, id) ==
    IF c \in jit[t]
    THEN [ok |-> FALSE, ptr |-> Null]
    ELSE [ok |-> TRUE, ptr |-> Trampoline(t, c, id)]

\* into_raw_closure: Box::new(self), Box::into_raw.
into_raw_closure(t, c) == Box(t, c)

\* A lookup that never finds the entry live.
upgrade_never(i) == 0

\* A lookup that hands out the entry whether or not it is still owned.
upgrade_dead(i) == registry[i]

\* Weak::upgrade of the registry entry of instance i: the overlay id, or 0.
upgrade(i) ==
    IF registry[i] # 0 /\ overlays[registry[i]].strong > 0 THEN registry[i] ELSE 0

\* ------------------------------------------------------------------ execute_plan
\* usize and isize of the target, at the width PtrBits.
UsizeMax == 2^PtrBits - 1
IsizeMin == -(2^(PtrBits - 1))
IsizeMax == 2^(PtrBits - 1) - 1

\* usize arithmetic that wraps; `as usize` of an isize.
Wrap(n) == n % (2^PtrBits)

\* usize::checked_add_signed: None (-1) when the sum leaves 0..UsizeMax.
checked_add_signed(a, rhs) == IF a + rhs \in 0..UsizeMax THEN a + rhs ELSE -1

\* The architectures execute_plan is built for (cfg(target_arch)).
Archs == {"x86_64", "aarch64"}

\* enum Action, with serde's tag "action".
Add(offset) == [action |-> "Add", offset |-> offset, name |-> "-"]
ResolveRelative(offset) == [action |-> "ResolveRelative", offset |-> offset, name |-> "-"]
Dereference == [action |-> "Dereference", offset |-> 0, name |-> "-"]
ResolvePageAndOffsetAddress(offset) ==
    [action |-> "ResolvePageAndOffsetAddress", offset |-> offset, name |-> "-"]
ImmediateFromInstructionAtAddress ==
    [action |-> "ImmediateFromInstructionAtAddress", offset |-> 0, name |-> "-"]
ResolveImmediateRelativeAddress ==
    [action |-> "ResolveImmediateRelativeAddress", offset |-> 0, name |-> "-"]
ResolvePageOffsetRelativeAddress ==
    [action |-> "ResolvePageOffsetRelativeAddress", offset |-> 0, name |-> "-"]
Custom(name) == [action |-> "Custom", offset |-> 0, name |-> name]

\* A build whose match has every arm.
implemented_everywhere(arch, kind) == TRUE

\* The match arms that exist in the build for arch: Add and Custom always,
\* the others under their #[cfg(target_arch = ..)].
implemented(arch, kind) ==
    \/ kind \in {"Add", "Custom"}
    \/ arch = "x86_64" /\ kind \in {"ResolveRelative", "Dereference"}
    \/ arch = "aarch64" /\ kind \in {"ResolvePageAndOffsetAddress",
                                     "ImmediateFromInstructionAtAddress",
                                     "ResolveImmediateRelativeAddress",
                                     "ResolvePageOffsetRelativeAddress"}

\* The memory of the target around the addresses of a plan: at each mapped
\* address the pointer-width word, the 32-bit word read as i32, and what the
\* 32-bit word decodes to.  Other addresses are not mapped.
NoInsn == [op |-> "NONE", imm |-> 0, hi |-> 0, lo |-> 0, shift |-> 0]
Cell(ptr, i32, insn) == [ptr |-> ptr, i32 |-> i32, insn |-> insn]
Memory ==
    [a \in 0..15 |->
        CASE a = 0 -> Cell(8, 4, [op |-> "ADRP", imm |-> 0, hi |-> 0, lo |-> 1, shift |-> 0])
          [] a = 4 -> Cell(0, -4, [op |-> "ADD", imm |-> 8, hi |-> 0, lo |-> 0, shift |-> 0])
          [] a = 8 -> Cell(8, 0, [op |-> "BL", imm |-> 2^26 - 1, hi |-> 0, lo |-> 0, shift |-> 0])
          [] a = 9 -> Cell(1, 1, [op |-> "LDR", imm |-> 13, hi |-> 0, lo |-> 0, shift |-> 0])
          [] a = 12 -> Cell(4, 8, [op |-> "OTHER", imm |-> 0, hi |-> 0, lo |-> 0, shift |-> 0])
          [] OTHER -> Cell(0, 0, NoInsn)]
Mapped(a) == a \in DOMAIN Memory

\* Results of the steps of a plan.  kind is "ok" (the new address), "err"
\* (an anyhow error: what it is and the values its message carries),
\* "panic" (an unwrap or an overflow check) or "fault" (a read of memory
\* that is not mapped); reads are the addresses read, calls the custom
\* functions called.
NoErr == [kind |-> "-", carries |-> <<>>]
Ok(a, reads, calls) == [kind |-> "ok", address |-> a, err |-> NoErr, reads |-> reads, calls |-> calls]
Err(kind, carries, a, reads, calls) ==
    [kind |-> "err", address |-> a, err |-> [kind |-> kind, carries |-> carries],
     reads |-> reads, calls |-> calls]
Stop(kind, a, reads, calls) == [kind |-> kind, address |-> a, err |-> NoErr, reads |-> reads, calls |-> calls]

\* a + b on usize: the build's overflow check panics, or the sum wraps.
UsizeAdd(a, b, overflow_checks) ==
    IF a + b > UsizeMax /\ overflow_checks THEN -1 ELSE Wrap(a + b)

\* x86_64::resolve_relative_address(addr, offset): the i32 at addr + offset,
\* added to addr, plus offset + 4.
x86_resolve_relative_address(addr, offset, oc) ==
    LET at == UsizeAdd(addr, offset, oc) IN
    IF at = -1 THEN Stop("panic", addr, {}, <<>>)
    ELSE IF ~Mapped(at) THEN Stop("fault", addr, {at}, <<>>)
    ELSE LET new_addr == Wrap(addr + Memory[at].i32)
             tail == UsizeAdd(offset, 4, oc)
         IN  IF tail = -1 \/ UsizeAdd(new_addr, tail, oc) = -1
             THEN Stop("panic", addr, {at}, <<>>)
             ELSE Ok(UsizeAdd(new_addr, tail, oc), {at}, <<>>)

\* aarch64::get_immediate(op): -1 stands for the assert that fails, "none"
\* for the error of an operation it has no idea about.
SignExtend(v, bits) == IF v >= 2^(bits - 1) THEN v - 2^bits ELSE v
get_immediate(insn) ==
    CASE insn.op = "LDR" -> [kind |-> "ok", imm |-> (((insn.imm \div 4) % 4) * 4) * 8]
      [] insn.op = "BL" -> [kind |-> "ok", imm |-> SignExtend(insn.imm, 26) * 4]
      [] insn.op = "ADRP" ->
            IF insn.hi < 2^19 /\ insn.lo < 4
            THEN [kind |-> "ok", imm |-> SignExtend(insn.hi * 4 + insn.lo, 21)]
            ELSE [kind |-> "panic", imm |-> 0]
      [] insn.op = "ADD" -> [kind |-> "ok", imm |-> insn.imm * 2^(insn.shift * 12)]
      [] OTHER -> [kind |-> "err", imm |-> 0]

\* aarch64::immediate_from_instruction_at_address(addr): read the u32,
\* decode it, get_immediate.
immediate_from_instruction_at_address(addr) ==
    IF ~Mapped(addr) THEN [kind |-> "fault", imm |-> 0, err |-> NoErr]
    ELSE IF Memory[addr].insn.op = "NONE"
         THEN [kind |-> "err", imm |-> 0, err |-> [kind |-> "DecodeError", carries |-> <<addr>>]]
         ELSE LET g == get_immediate(Memory[addr].insn) IN
              IF g.kind = "err"
              THEN [kind |-> "err", imm |-> 0,
                    err |-> [kind |-> "NoImmediate", carries |-> <<Memory[addr].insn.op>>]]
              ELSE [kind |-> g.kind, imm |-> g.imm, err |-> NoErr]

\* aarch64::resolve_relative_address: checked_add_signed(offset).unwrap().
aarch64_resolve_relative_address(address, offset) == checked_add_signed(address, offset)

\* aarch64::resolve_page_aligned_relative_address:
\* ((address + 4) & !0xfff).checked_add_signed(offset << 12).unwrap().
resolve_page_aligned_relative_address(address, offset, oc) ==
    LET a4 == UsizeAdd(address, 4, oc) IN
    IF a4 = -1 THEN -1 ELSE checked_add_signed(a4 - (a4 % 4096), offset * 4096)

\* aarch64::resolve_page_and_offset_load_at_address(address).
resolve_page_and_offset_load_at_address(address, oc) ==
    LET p == immediate_from_instruction_at_address(address) IN
    IF p.kind = "err" THEN Err(p.err.kind, p.err.carries, address, {address}, <<>>)
    ELSE IF p.kind # "ok" THEN Stop(p.kind, address, {address}, <<>>)
    ELSE LET page == resolve_page_aligned_relative_address(address, p.imm, oc)
             a4 == UsizeAdd(address, 4, oc)
         IN  IF page = -1 \/ a4 = -1 THEN Stop("panic", address, {address}, <<>>)
             ELSE LET o == immediate_from_instruction_at_address(a4) IN
                  IF o.kind = "err" THEN Err(o.err.kind, o.err.carries, address, {address, a4}, <<>>)
                  ELSE IF o.kind # "ok" THEN Stop(o.kind, address, {address, a4}, <<>>)
                  ELSE IF checked_add_signed(page, o.imm) = -1
                       THEN Stop("panic", address, {address, a4}, <<>>)
                       ELSE Ok(checked_add_signed(page, o.imm), {address, a4}, <<>>)

\* CustomActionFn: the functions a caller may put in the action table.
\*   "succ": |a| Ok(a.wrapping_add(1));  "zero": |_| Ok(0);  "fail": |_| Err(..)
CustomFns == {"succ", "zero", "fail"}
CallCustom(f, a) ==
    CASE f = "succ" -> Ok(Wrap(a + 1), {}, <<f>>)
      [] f = "zero" -> Ok(0, {}, <<f>>)
      [] OTHER -> Err("CustomError", <<f>>, a, {}, <<f>>)

\* Option<&CustomActions>: None, or a map from names to functions.
None == [some |-> FALSE, map |-> <<>>]
Some(m) == [some |-> TRUE, map |-> m]

\* A lookup that falls back on some entry of the table.
find_custom_any(custom_actions, name) ==
    IF custom_actions.some /\ DOMAIN custom_actions.map # {}
    THEN IF name \in DOMAIN custom_actions.map
         THEN custom_actions.map[name]
         ELSE custom_actions.map[CHOOSE k \in DOMAIN custom_actions.map : TRUE]
    ELSE "-"

\* custom_actions.and_then(|actions| actions.iter().find_map(|(k, v)| (k == name).then_some(v)))
find_custom(custom_actions, name) ==
    IF custom_actions.some /\ name \in DOMAIN custom_actions.map
    THEN custom_actions.map[name]
    ELSE "-"

\* One iteration of the loop of execute_plan: the match on the action; an
\* action with no arm in the build falls to the last arm.
execute_action(address, a, custom_actions, arch, oc) ==
    IF ~implemented(arch, a.action)
    THEN Err("UnsupportedAction", <<a>>, address, {}, <<>>)
    ELSE
    CASE a.action = "Add" ->
            IF checked_add_signed(address, a.offset) = -1
            THEN Err("ArithmeticOverflow", <<>>, address, {}, <<>>)
            ELSE Ok(checked_add_signed(address, a.offset), {}, <<>>)
      [] a.action = "Custom" ->
            IF find_custom(custom_actions, a.name) = "-"
            THEN Err("UnknownCustomAction", <<a.name>>, address, {}, <<>>)
            ELSE CallCustom(find_custom(custom_actions, a.name), address)
      [] a.action = "ResolveRelative" -> x86_resolve_relative_address(address, a.offset, oc)
      [] a.action = "Dereference" ->
            IF Mapped(address) THEN Ok(Memory[address].ptr, {address}, <<>>)
            ELSE Stop("fault", address, {address}, <<>>)
      [] a.action \in {"ResolvePageAndOffsetAddress", "ResolvePageOffsetRelativeAddress"} ->
            resolve_page_and_offset_load_at_address(address, oc)
      [] a.action = "ImmediateFromInstructionAtAddress" ->
            LET i == immediate_from_instruction_at_address(address) IN
            IF i.kind = "err" THEN Err(i.err.kind, i.err.carries, address, {address}, <<>>)
            ELSE IF i.kind # "ok" THEN Stop(i.kind, address, {address}, <<>>)
            ELSE Ok(Wrap(i.imm), {address}, <<>>)
      [] a.action = "ResolveImmediateRelativeAddress" ->
            LET i == immediate_from_instruction_at_address(address) IN
            IF i.kind = "err" THEN Err(i.err.kind, i.err.carries, address, {address}, <<>>)
            ELSE IF i.kind # "ok" THEN Stop(i.kind, address, {address}, <<>>)
            ELSE IF aarch64_resolve_relative_address(address, i.imm) = -1
                 THEN Stop("panic", address, {address}, <<>>)
                 ELSE Ok(aarch64_resolve_relative_address(address, i.imm), {address}, <<>>)

\* An evaluation that goes on to the next action whatever the last one gave.
propagates_nothing(acc) == FALSE

\* The `?` behind the match (and a panic or a fault): an outcome that is not
\* Ok leaves execute_plan at once.
propagates(acc) == acc.kind # "ok"

\* execute_plan(address, actions, custom_actions): the for loop, from the
\* outcome acc of the actions before index k; Ok(address) after the last.
RECURSIVE PlanFrom(_, _, _, _, _, _)
PlanFrom(acc, actions, k, custom_actions, arch, oc) ==
    IF k > Len(actions) \/ propagates(acc) THEN acc
    ELSE LET r == execute_action(acc.address, actions[k], custom_actions, arch, oc) IN
         PlanFrom([r EXCEPT !.reads = acc.reads \cup r.reads, !.calls = acc.calls \o r.calls],
                  actions, k + 1, custom_actions, arch, oc)

execute_plan(address, actions, custom_actions, arch, oc) ==
    PlanFrom(Ok(address, {}, <<>>), actions, 1, custom_actions, arch, oc)

\* ---- the inputs of the plans
\* Starting addresses: in the mapped window, and at both ends of usize.
PlanAddrs == {0, 8, UsizeMax}
PlanActions ==
    {Add(1), Add(-1), ResolveRelative(0), Dereference, ResolvePageAndOffsetAddress(0),
     ImmediateFromInstructionAtAddress, ResolveImmediateRelativeAddress,
     ResolvePageOffsetRelativeAddress, Custom("k1"), Custom("k2")}
Plans == UNION {[1..n -> PlanActions] : n \in 0..MaxPlanLen}
CustomTables ==
    {None, Some(<<>>)} \cup {Some([k \in {"k1"} |-> f]) : f \in CustomFns}
        \cup {Some([k \in {"k1", "k2"} |-> IF k = "k1" THEN "succ" ELSE "zero"])}

NoOutcome == Stop("-", 0, {}, <<>>)
NoPlan ==
    [pc |-> "none", arch |-> "-", overflow_checks |-> FALSE, address |-> 0,
     actions |-> <<>>, custom_actions |-> None, result |-> NoOutcome]

\* ------------------------------------------------------------------ threads
Idle ==
    [pc |-> "idle", op |-> "none", inst |-> "-", slot |-> 0, ctype |-> "-",
     args |-> <<0, 0>>, ov |-> 0, res |-> "none", ret |-> NoResult,
     rd_orig |-> 0, rd_tab |-> <<>>, closure |-> NoBox, original_fn |-> Null,
     built |-> FALSE, hooked |-> FALSE, index |-> 0]

\* The overlay the registry records for instance i, when it is live; else 0.
LiveEntry(i) ==
    IF registry[i] # 0 /\ overlays[registry[i]].strong > 0 THEN registry[i] ELSE 0

NoSnap == [word |-> -1, table |-> <<>>, closures |-> <<>>, boxes |-> {}]

\* What an install must leave unchanged when it fails.
Snapshot(i) ==
    [word |-> word[i],
     table |-> IF LiveEntry(i) # 0 THEN overlays[LiveEntry(i)].new_table ELSE <<>>,
     closures |-> IF LiveEntry(i) # 0 THEN overlays[LiveEntry(i)].closures ELSE <<>>,
     boxes |-> boxes]

\* The process runs: no thread has brought it down.
Running == \A u \in Threads : th[u].pc # "aborted"

At(t, p) == Running /\ th[t].pc = p

\* struct HookFunction { instance_hook, index }; b tells apart two handles of
\* one slot (the closure boxed by the install that returned the handle).
HookFunction(o, index, b) == [ov |-> o, index |-> index, box |-> b]

\* A run builds at most max overlays: an operation that may build one starts
\* only while an address is left for it.
Room(max) ==
    Len(overlays) + Cardinality({u \in Threads : th[u].pc \in {"vcall", "for_instance", "new_read", "new_write"}}) < max

\* Live handles whose overlay belongs to instance i.
HandlesOf(i) == {hd \in handles : overlays[hd.ov].instance = i}

\* No thread is inside an operation.
Quiet == \A u \in Threads : th[u].pc \in {"idle", "panicked"}

\* An operation may start: one at a time in the sequential runs, within the
\* budget of operations in the interleaved ones.
Budget(seq) == IF seq THEN Quiet ELSE nops < MaxConcOps

Count(seq) == IF seq THEN nops ELSE nops + 1

\* No trampoline is being generated.
NoEmit == [pc |-> "none"]

Init ==
    /\ word = [i \in Instances |-> OrigAddr]
    /\ orig_mem = [k \in 1..(TableLen + 1) |-> IF k <= TableLen THEN OrigFn(k - 1) ELSE Null]
    /\ overlays = <<>>
    /\ registry = [i \in Instances |-> 0]
    /\ registry_lock = NoThread
    /\ jit = [t \in Threads |-> {}]
    /\ boxes = {}
    /\ handles = {}
    /\ th = [t \in Threads |-> Idle]
    /\ nops = 0
    /\ snap = NoSnap
    /\ stack = [t \in Threads |-> <<>>]
    /\ emit = NoEmit
    /\ plan = NoPlan

\* ------------------------------------------------------------------ shared steps
\* The thread leaves its operation: a panic ends the thread; a panic that
\* unwinds out of a closure reaches the extern "C" dispatcher and aborts.
Leave(t, rec) ==
    IF rec.res = "panic"
    THEN IF stack[t] = <<>> THEN [Idle EXCEPT !.pc = "panicked"] ELSE [rec EXCEPT !.pc = "aborted"]
    ELSE [rec EXCEPT !.pc = "ret"]

\* HookInstance::for_instance, live entry: lock the registry, upgrade the
\* weak reference, return the Arc (the guard is released on return).
ForInstanceHit(t) ==
    /\ At(t, "for_instance")
    /\ registry_lock = NoThread
    /\ upgrade(th[t].inst) # 0
    /\ overlays' = [overlays EXCEPT ![upgrade(th[t].inst)].strong = @ + 1]
    /\ th' = [th EXCEPT ![t].ov = upgrade(th[t].inst), ![t].pc = "lock_overlay"]
    /\ UNCHANGED <<emit, word, orig_mem, registry, registry_lock, jit, boxes, handles, nops, snap, stack, plan>>

\* HookInstance::for_instance, no entry or a dead one: the registry stays
\* locked while HookInstance::new runs.
ForInstanceMiss(t) ==
    /\ At(t, "for_instance")
    /\ registry_lock = NoThread
    /\ upgrade(th[t].inst) = 0
    /\ registry_lock' = t
    /\ th' = [th EXCEPT ![t].pc = "new_read"]
    /\ UNCHANGED <<emit, word, orig_mem, overlays, registry, jit, boxes, handles, nops, snap, stack, plan>>

\* HookInstance::new, reads: get_table, count_funcs, the copy of the table.
NewRead(t) ==
    /\ At(t, "new_read")
    /\ \E n \in count_funcs(get_table(th[t].inst)) :
          th' = [th EXCEPT ![t].rd_orig = get_table(th[t].inst),
                           ![t].rd_tab = CopyTable(get_table(th[t].inst), n),
                           ![t].pc = "new_write"]
    /\ UNCHANGED <<emit, word, orig_mem, overlays, registry, registry_lock, jit, boxes, handles, nops, snap, stack, plan>>

\* A pointer swap that reaches every object using the instance's table.
replace_table_pointer_shared(i, a) ==
    [j \in Instances |-> IF word[j] = word[i] THEN a ELSE word[j]]

\* replace_table_pointer: *(instance as *mut _) = new_table.
replace_table_pointer(i, a) == [word EXCEPT ![i] = a]

\* A for_instance that returns with the registry's guard still held.
hooked_instances_kept(t) == t

\* for_instance returns: the guard hooked_instances goes out of scope and the
\* registry's mutex has no holder.
hooked_instances_dropped(t) == NoThread

\* HookInstance::new, write: the instance's first word becomes the clone's
\* address; then for_instance records the weak reference and returns.
NewWrite(t) ==
    LET o == Len(overlays) + 1 IN
    /\ At(t, "new_write")
    /\ word' = replace_table_pointer(th[t].inst, CloneAddr(o))
    /\ overlays' = Append(overlays, HookInstance(th[t].inst, th[t].rd_orig, th[t].rd_tab))
    /\ registry' = [registry EXCEPT ![th[t].inst] = o]
    /\ registry_lock' = hooked_instances_dropped(t)
    /\ th' = [th EXCEPT ![t].ov = o, ![t].rd_orig = 0, ![t].rd_tab = <<>>,
                        ![t].built = TRUE, ![t].pc = "lock_overlay"]
    /\ UNCHANGED <<emit, orig_mem, jit, boxes, handles, nops, snap, stack, plan>>

\* A mutex that lets every caller in.
can_lock_always(h) == TRUE

\* Mutex::lock returns once no thread holds the mutex.
can_lock(h) == h.lock = NoThread

\* instance_hook.lock()
LockOverlay(t) ==
    /\ At(t, "lock_overlay")
    /\ can_lock(overlays[th[t].ov])
    /\ overlays' = [overlays EXCEPT ![th[t].ov].lock = t]
    /\ th' = [th EXCEPT ![t].pc = CASE th[t].op = "install" -> "hook_function_with_closure"
                                    [] th[t].op = "drop" -> "unhook_function"
                                    [] OTHER -> "lookup"]
    /\ UNCHANGED <<emit, word, orig_mem, registry, registry_lock, jit, boxes, handles, nops, snap, stack, plan>>

\* The Arc held by the thread is released: strong.fetch_sub(1).  The thread
\* that takes the count to zero goes on to drop the HookInstance.
ArcRelease(t) ==
    /\ At(t, "arc_release")
    /\ overlays' = [overlays EXCEPT ![th[t].ov].strong = @ - 1]
    /\ th' = [th EXCEPT ![t] = IF overlays[th[t].ov].strong = 1
                               THEN [th[t] EXCEPT !.pc = "drop_hook_instance"]
                               ELSE Leave(t, [th[t] EXCEPT !.ov = 0])]
    /\ UNCHANGED <<emit, word, orig_mem, registry, registry_lock, jit, boxes, handles, nops, snap, stack, plan>>

\* impl Drop for HookInstance: the instance's first word is set to original_table.
DropHookInstance(t) ==
    /\ At(t, "drop_hook_instance")
    /\ word' = replace_table_pointer(overlays[th[t].ov].instance, overlays[th[t].ov].original_table)
    /\ overlays' = [overlays EXCEPT ![th[t].ov].st = "restored"]
    /\ th' = [th EXCEPT ![t].pc = "free_fields"]
    /\ UNCHANGED <<emit, orig_mem, registry, registry_lock, jit, boxes, handles, nops, snap, stack, plan>>

\* The fields are dropped after Drop::drop: the clone's block and the map
\* are released (the map holds raw pointers: no closure is released).
FreeFields(t) ==
    /\ At(t, "free_fields")
    /\ overlays' = [overlays EXCEPT ![th[t].ov].st = "freed",
                                    ![th[t].ov].new_table = <<>>,
                                    ![th[t].ov].closures = [k \in 0..TableLen |-> NoBox]]
    /\ th' = [th EXCEPT ![t] = Leave(t, [th[t] EXCEPT !.ov = 0])]
    /\ UNCHANGED <<emit, word, orig_mem, registry, registry_lock, jit, boxes, handles, nops, snap, stack, plan>>

\* The operation's result has been handed to the caller.
Return(t) ==
    /\ At(t, "ret")
    /\ stack[t] = <<>>
    /\ th' = [th EXCEPT ![t] = Idle]
    /\ snap' = NoSnap
    /\ UNCHANGED <<emit, word, orig_mem, overlays, registry, registry_lock, jit, boxes, handles, nops, stack, plan>>

\* ------------------------------------------------------------------ where the stores land
\* Stores that go to the table the instance had when the overlay was built.
new_table_store_original(o) == overlays[o].original_table

\* self.new_table[index] = ...: the block the store goes to is the boxed
\* slice the overlay owns.
new_table_store(o) == CloneAddr(o)

\* The target's table after a store of f at index k of the block at a: the
\* clones are not the target's memory.
store(a, k, f) ==
    IF a = OrigAddr /\ k < Len(orig_mem) THEN [orig_mem EXCEPT ![k + 1] = f] ELSE orig_mem

\* ------------------------------------------------------------------ HookFunction::new
\* HookFunction::new(instance, index, f) is called; seq: no other operation is under way.
StartInstall(t, i, s, c, seq) ==
    /\ At(t, "idle")
    /\ Budget(seq)
    /\ Room(MaxOverlays)
    /\ nops' = Count(seq)
    /\ snap' = IF seq THEN Snapshot(i) ELSE snap
    /\ th' = [th EXCEPT ![t] = [Idle EXCEPT !.pc = "for_instance", !.op = "install",
                                            !.inst = i, !.slot = s, !.ctype = c]]
    /\ UNCHANGED <<emit, word, orig_mem, overlays, registry, registry_lock, jit, boxes, handles, stack, plan>>

\* hook_function_with_closure up to the store into the clone: make_trampoline,
\* into_raw_closure, hook_function.  An error (or the panic of the store)
\* leaves through the guard's and the Arc's drop.
HookFunctionWithClosure(t) ==
    LET me == th[t]
        h == overlays[me.ov]
        tr == make_trampoline(t, me.ctype, me.slot)
        hf == hook_function(h, me.slot, tr.ptr)
    IN
    /\ At(t, "hook_function_with_closure")
    /\ IF ~tr.ok
       THEN /\ overlays' = [overlays EXCEPT ![me.ov].lock = NoThread]
            /\ th' = [th EXCEPT ![t].res = "CodeGenError", ![t].pc = "arc_release"]
            /\ UNCHANGED <<jit, boxes, orig_mem>>
       ELSE /\ jit' = [jit EXCEPT ![t] = @ \cup {me.ctype}]
            /\ boxes' = boxes \cup {into_raw_closure(t, me.ctype)}
            /\ IF hf.res = "ok"
               THEN /\ overlays' = [overlays EXCEPT ![me.ov] = hf.h]
                    /\ orig_mem' = store(new_table_store(me.ov), me.slot, tr.ptr)
                    /\ th' = [th EXCEPT ![t].closure = into_raw_closure(t, me.ctype),
                                        ![t].pc = "closures_insert"]
               ELSE /\ overlays' = [overlays EXCEPT ![me.ov].lock = NoThread]
                    /\ th' = [th EXCEPT ![t].res = hf.res, ![t].pc = "arc_release"]
                    /\ UNCHANGED orig_mem
    /\ UNCHANGED <<emit, word, registry, registry_lock, handles, nops, snap, stack, plan>>

\* self.closures.insert(index, closure); the guard is released and the
\* HookFunction { index, instance_hook } is returned.
ClosuresInsert(t) ==
    LET me == th[t] IN
    /\ At(t, "closures_insert")
    /\ overlays' = [overlays EXCEPT ![me.ov] =
                       [closures_insert(overlays[me.ov], me.slot, me.closure) EXCEPT !.lock = NoThread]]
    /\ handles' = handles \cup {HookFunction(me.ov, me.slot, me.closure)}
    /\ th' = [th EXCEPT ![t].res = "ok", ![t].ov = 0, ![t].pc = "ret"]
    /\ UNCHANGED <<emit, word, orig_mem, registry, registry_lock, jit, boxes, nops, snap, stack, plan>>

\* ------------------------------------------------------------------ drop(HookFunction)
\* The handle hd is dropped by thread t: its Arc is now the thread's to release.
StartDrop(t, hd, seq) ==
    /\ At(t, "idle")
    /\ Budget(seq)
    /\ nops' = Count(seq)
    /\ hd \in handles
    /\ handles' = handles \ {hd}
    /\ th' = [th EXCEPT ![t] = [Idle EXCEPT !.pc = "lock_overlay", !.op = "drop",
                                            !.inst = overlays[hd.ov].instance,
                                            !.slot = hd.index, !.ov = hd.ov]]
    /\ UNCHANGED <<emit, word, orig_mem, overlays, registry, registry_lock, jit, boxes, snap, stack, plan>>

\* unhook_function_with_closure, first half: unhook_function(index)?;
\* the caller unwraps the result.
UnhookFunction(t) ==
    LET me == th[t]
        uf == unhook_function(overlays[me.ov], me.slot)
    IN
    /\ At(t, "unhook_function")
    /\ IF uf.res = "ok"
       THEN /\ overlays' = [overlays EXCEPT ![me.ov] = uf.h]
            /\ orig_mem' = store(new_table_store(me.ov), me.slot,
                                 original_function(overlays[me.ov], me.slot))
            /\ th' = [th EXCEPT ![t].pc = "closures_remove"]
       ELSE /\ overlays' = [overlays EXCEPT ![me.ov].lock = NoThread]
            /\ th' = [th EXCEPT ![t].res = "panic", ![t].pc = "arc_release"]
            /\ UNCHANGED orig_mem
    /\ UNCHANGED <<emit, word, registry, registry_lock, jit, boxes, handles, nops, snap, stack, plan>>

\* unhook_function_with_closure, second half: self.closures.remove(&index);
\* the guard is released, then the handle's Arc field is dropped.
ClosuresRemove(t) ==
    LET me == th[t] IN
    /\ At(t, "closures_remove")
    /\ overlays' = [overlays EXCEPT ![me.ov] =
                       [closures_remove(overlays[me.ov], me.slot) EXCEPT !.lock = NoThread]]
    /\ th' = [th EXCEPT ![t].res = "ok", ![t].pc = "arc_release"]
    /\ UNCHANGED <<emit, word, orig_mem, registry, registry_lock, jit, boxes, handles, nops, snap, stack, plan>>

\* ------------------------------------------------------------------ virtual calls
\* The host calls slot s of instance i with arguments a: (*(*i))[s](i, a...).
StartCall(t, i, s, a, seq) ==
    /\ At(t, "idle")
    /\ Budget(seq)
    /\ Room(MaxOverlays)
    /\ nops' = Count(seq)
    /\ th' = [th EXCEPT ![t] = [Idle EXCEPT !.pc = "vcall", !.op = "call", !.inst = i,
                                            !.slot = s, !.args = a]]
    /\ UNCHANGED <<emit, word, orig_mem, overlays, registry, registry_lock, jit, boxes, handles, snap, stack, plan>>

\* An indirect C-ABI call of function pointer f with (this, a, b): the
\* target's own function returns its result; any other word is no function
\* of the shape and brings the process down.
Invoke(f, this, a, b) ==
    IF f.kind = "orig" THEN OrigResult(f.idx, this, <<a, b>>) ELSE CrashResult

\* Call::call for _FuncContext: let (a, b) = args; (self.original_fn)(this, a, b).
Call_call(original_fn, this, args) == Invoke(original_fn, this, args[1], args[2])

\* call_original(ctx, this, args) == ctx.call(this, args).
call_original(original_fn, this, args) == Call_call(original_fn, this, args)

\* What the closure of type c returns when run with the context's
\* original_fn, the receiver and the arguments.
RunClosureOf(c, original_fn, this, args) ==
    IF c = "delegate" THEN call_original(original_fn, this, args) ELSE ConstResult

\* The call reads the instance's first word and the slot's entry and jumps:
\* into the target's function, or into a trampoline, which passes its baked
\* slot id with the receiver and the arguments to the dispatcher.
VCall(t) ==
    LET me == th[t]
        f == ReadEntry(word[me.inst], me.slot)
    IN
    /\ At(t, "vcall")
    /\ th' = [th EXCEPT ![t] =
                CASE f.kind = "orig" ->
                        [me EXCEPT !.ret = Invoke(f, me.inst, me.args[1], me.args[2]),
                                   !.res = "ok", !.pc = "ret"]
                  [] f.kind = "tramp" ->
                        [me EXCEPT !.index = f.idx, !.hooked = TRUE, !.pc = "for_instance"]
                  [] OTHER ->
                        [me EXCEPT !.ret = CrashResult, !.res = "crash", !.pc = "aborted"]]
    /\ UNCHANGED <<emit, word, orig_mem, overlays, registry, registry_lock, jit, boxes, handles, nops, snap, stack, plan>>

\* A dispatcher that keeps the guard while the closure runs.
drop_guard_late(h) == h

\* drop(h): the MutexGuard of the overlay is released.
drop_guard(h) == [h EXCEPT !.lock = NoThread]

\* thunk / func, under the overlay's lock: h.closure(index),
\* h.original_function(index), drop(h).  A missing key panics inside an
\* extern "C" function, which aborts the process.
Lookup(t) ==
    LET me == th[t]
        h == overlays[me.ov]
    IN
    /\ At(t, "lookup")
    /\ IF closure(h, me.index) = NoBox
       THEN /\ th' = [th EXCEPT ![t].res = "crash", ![t].ret = CrashResult, ![t].pc = "aborted"]
            /\ UNCHANGED overlays
       ELSE /\ th' = [th EXCEPT ![t].closure = closure(h, me.index),
                                ![t].original_fn = original_function(h, me.index),
                                ![t].pc = "run_closure"]
            /\ overlays' = [overlays EXCEPT ![me.ov] = drop_guard(h)]
    /\ UNCHANGED <<emit, word, orig_mem, registry, registry_lock, jit, boxes, handles, nops, snap, stack, plan>>

\* (*closure)(&context, &mut *this, args...): the closure runs with the
\* lock released; the context (and its Arc) is dropped when func returns.
RunClosure(t) ==
    LET me == th[t]
        r == RunClosureOf(me.closure.ctype, me.original_fn, me.inst, me.args)
    IN
    /\ At(t, "run_closure")
    /\ me.closure.ctype \in ClosureTypes
    /\ th' = [th EXCEPT ![t] =
                IF r = CrashResult
                THEN [me EXCEPT !.ret = r, !.res = "crash", !.pc = "aborted"]
                ELSE [me EXCEPT !.ret = r, !.res = "ok", !.pc = "arc_release"]]
    /\ UNCHANGED <<emit, word, orig_mem, overlays, registry, registry_lock, jit, boxes, handles, nops, snap, stack, plan>>

\* ------------------------------------------------------------------ closures that re-enter
\* The frame of the dispatch whose closure has started an operation.
Suspend(t) == Append(stack[t], [th[t] EXCEPT !.pc = "in_closure"])

\* (*closure)(..) for "call_slot1": the closure calls slot 1 through `this`.
ClosureCalls(t) ==
    LET me == th[t] IN
    /\ At(t, "run_closure")
    /\ me.closure.ctype = "call_slot1"
    /\ Len(stack[t]) < MaxDepth
    /\ stack' = [stack EXCEPT ![t] = Suspend(t)]
    /\ th' = [th EXCEPT ![t] = [Idle EXCEPT !.pc = "vcall", !.op = "call", !.inst = me.inst,
                                            !.slot = 1, !.args = me.args]]
    /\ UNCHANGED <<emit, word, orig_mem, overlays, registry, registry_lock, jit, boxes, handles, nops, snap, plan>>

\* (*closure)(..) for "drop_handle": the closure drops a handle of the
\* instance it was called on (its own included), when the cell holds one.
ClosureDrops(t) ==
    LET me == th[t] IN
    /\ At(t, "run_closure")
    /\ me.closure.ctype = "drop_handle"
    /\ Len(stack[t]) < MaxDepth
    /\ IF HandlesOf(me.inst) = {}
       THEN /\ th' = [th EXCEPT ![t].ret = ConstResult, ![t].res = "ok", ![t].pc = "arc_release"]
            /\ UNCHANGED <<handles, stack>>
       ELSE \E hd \in HandlesOf(me.inst) :
               /\ handles' = handles \ {hd}
               /\ stack' = [stack EXCEPT ![t] = Suspend(t)]
               /\ th' = [th EXCEPT ![t] = [Idle EXCEPT !.pc = "lock_overlay", !.op = "drop",
                                                       !.inst = me.inst, !.slot = hd.index,
                                                       !.ov = hd.ov]]
    /\ UNCHANGED <<emit, word, orig_mem, overlays, registry, registry_lock, jit, boxes, nops, snap, plan>>

\* (*closure)(..) for "install_hook": the closure calls
\* HookFunction::new(this, 1, const7) and keeps what it returns.
ClosureInstalls(t) ==
    LET me == th[t] IN
    /\ At(t, "run_closure")
    /\ me.closure.ctype = "install_hook"
    /\ Len(stack[t]) < MaxDepth
    /\ stack' = [stack EXCEPT ![t] = Suspend(t)]
    /\ th' = [th EXCEPT ![t] = [Idle EXCEPT !.pc = "for_instance", !.op = "install",
                                            !.inst = me.inst, !.slot = 1, !.ctype = "const7"]]
    /\ UNCHANGED <<emit, word, orig_mem, overlays, registry, registry_lock, jit, boxes, handles, nops, snap, plan>>

\* The operation the closure started has returned: the closure goes on to
\* its own return, and func drops the context.
ClosureResumes(t) ==
    LET top == stack[t][Len(stack[t])] IN
    /\ At(t, "ret")
    /\ stack[t] # <<>>
    /\ stack' = [stack EXCEPT ![t] = SubSeq(stack[t], 1, Len(stack[t]) - 1)]
    /\ th' = [th EXCEPT ![t] =
                [top EXCEPT !.ret = IF top.closure.ctype = "call_slot1" THEN th[t].ret ELSE ConstResult,
                            !.res = "ok", !.pc = "arc_release"]]
    /\ UNCHANGED <<emit, word, orig_mem, overlays, registry, registry_lock, jit, boxes, handles, nops, snap, plan>>

\* ------------------------------------------------------------------ specifications
\* The statements of install, drop and teardown.
HookSteps(t) ==
    \/ ForInstanceHit(t)
    \/ ForInstanceMiss(t)
    \/ NewRead(t)
    \/ NewWrite(t)
    \/ LockOverlay(t)
    \/ HookFunctionWithClosure(t)
    \/ ClosuresInsert(t)
    \/ UnhookFunction(t)
    \/ ClosuresRemove(t)
    \/ ArcRelease(t)
    \/ DropHookInstance(t)
    \/ FreeFields(t)
    \/ Return(t)

\* The statements of a virtual call and of the dispatcher.
CallSteps(t) ==
    \/ VCall(t)
    \/ Lookup(t)
    \/ RunClosure(t)

\* Threads install and drop hooks on x at the same time, statement by
\* statement, while the host calls through the unhooked y.
Next ==
    \E t \in Threads :
        \/ HookSteps(t)
        \/ \E i \in Hooked, s \in InstallSlots, c \in ClosureTypes :
              StartInstall(t, i, s, c, FALSE)
        \/ \E hd \in handles : StartDrop(t, hd, FALSE)
        \/ \E i \in Instances \ Hooked, s \in CallSlots, a \in ArgTuples :
              StartCall(t, i, s, a, FALSE)
        \/ VCall(t)

Spec == Init /\ [][Next]_vars

\* One operation at a time, by any thread: installs, drops, virtual calls.
NextSeq ==
    \E t \in Threads :
        \/ HookSteps(t)
        \/ CallSteps(t)
        \/ \E i \in Hooked, s \in InstallSlots, c \in ClosureTypes :
              StartInstall(t, i, s, c, TRUE)
        \/ \E hd \in handles : StartDrop(t, hd, TRUE)
        \/ \E i \in Instances, s \in CallSlots, a \in ArgTuples :
              StartCall(t, i, s, a, TRUE)

SpecSeq == Init /\ [][NextSeq]_vars

\* Threads install and drop hooks on x and call through x and y at the same
\* time, statement by statement.
NextAll ==
    \E t \in Threads :
        \/ HookSteps(t)
        \/ CallSteps(t)
        \/ \E i \in Hooked, s \in InstallSlots, c \in ClosureTypes :
              StartInstall(t, i, s, c, FALSE)
        \/ \E hd \in handles : StartDrop(t, hd, FALSE)
        \/ \E i \in Instances, s \in CallSlots, a \in ArgTuples :
              StartCall(t, i, s, a, FALSE)

SpecAll == Init /\ [][NextAll]_vars

\* ------------------------------------------------------------------ execute_plan, called
\* A caller is about to call execute_plan(address, &actions, custom_actions)
\* in a build for arch, with or without overflow checks.
InitPlan ==
    /\ word = [i \in Instances |-> OrigAddr]
    /\ orig_mem = [k \in 1..(TableLen + 1) |-> IF k <= TableLen THEN OrigFn(k - 1) ELSE Null]
    /\ overlays = <<>>
    /\ registry = [i \in Instances |-> 0]
    /\ registry_lock = NoThread
    /\ jit = [t \in Threads |-> {}]
    /\ boxes = {}
    /\ handles = {}
    /\ th = [t \in Threads |-> Idle]
    /\ nops = 0
    /\ snap = NoSnap
    /\ stack = [t \in Threads |-> <<>>]
    /\ emit = NoEmit
    /\ \E arch \in Archs, oc \in BOOLEAN, address \in PlanAddrs, actions \in Plans,
          custom_actions \in CustomTables :
          plan = [pc |-> "call", arch |-> arch, overflow_checks |-> oc, address |-> address,
                  actions |-> actions, custom_actions |-> custom_actions, result |-> NoOutcome]

\* execute_plan runs and returns (or ends the thread).
ExecutePlan ==
    /\ plan.pc = "call"
    /\ plan' = [plan EXCEPT !.pc = "done",
                            !.result = execute_plan(plan.address, plan.actions, plan.custom_actions,
                                                    plan.arch, plan.overflow_checks)]
    /\ UNCHANGED <<emit, word, orig_mem, overlays, registry, registry_lock, jit, boxes, handles, th,
                   nops, snap, stack>>

NextPlan == ExecutePlan

SpecPlan == InitPlan /\ [][NextPlan]_vars

\* What a closure that re-enters the library does while it runs.
ReSteps(t) ==
    \/ ClosureCalls(t)
    \/ ClosureDrops(t)
    \/ ClosureInstalls(t)
    \/ ClosureResumes(t)

\* The re-entrant runs have one host thread: what a closure does, it does on
\* the thread that called the hooked slot.
ReThreads == {"t1"}

\* The hooks the caller installs in the re-entrant runs: the closure that
\* calls slot 1 sits on slot 0.
ReInstalls ==
    {sc \in CallSlots \X (ReentrantTypes \cup {"const7"}) : sc[2] = "call_slot1" => sc[1] = 0}

\* One host operation at a time; the closures the dispatcher runs install,
\* drop and call on the instance they were called on.
NextRe ==
    \E t \in ReThreads :
        \/ HookSteps(t)
        \/ CallSteps(t)
        \/ ReSteps(t)
        \/ \E i \in Hooked, sc \in ReInstalls : StartInstall(t, i, sc[1], sc[2], TRUE)
        \/ \E hd \in handles : StartDrop(t, hd, TRUE)
        \/ \E i \in Hooked, s \in CallSlots, a \in ArgTuples : StartCall(t, i, s, a, TRUE)

SpecRe == Init /\ [][NextRe]_vars

\* ------------------------------------------------------------------ vocabulary of the claims
OverlayIds == 1..Len(overlays)

\* The overlay is live in the sense of the registry: its weak reference upgrades.
Live(o) == overlays[o].strong > 0

\* Live handles on instance i.
HandlesOn(i) == {hd \in handles : overlays[hd.ov].instance = i}

\* No operation is under way: every call has come back (or ended its thread).
AtRest == Running /\ \A t \in Threads : th[t].pc \in {"idle", "ret", "panicked"}

\* The table the target built: TableLen functions and the null word.
TrueTable == [k \in 1..(TableLen + 1) |-> IF k <= TableLen THEN OrigFn(k - 1) ELSE Null]

\* ------------------------------------------------------------------ C1
\* C1 (restoration law): once a sequence of installs (successful or failing)
\* and handle drops has ended with no live handle on an instance, the
\* instance's first word is the address of the original table again, and the
\* entries read through the instance are the original table's.
C1_RestorationLaw ==
    \A i \in Instances :
        (AtRest /\ HandlesOn(i) = {}) =>
            /\ word[i] = OrigAddr
            /\ \A k \in 0..(TableLen - 1) : ReadEntry(word[i], k) = OrigFn(k)

\* ------------------------------------------------------------------ C2
\* C2 (overlay invariant under interleaving): whenever an overlay of an
\* instance exists (some reference to it is held), the instance's first word
\* is the address of that overlay's clone and the overlay's original_table is
\* the instance's true original table.
C2_OverlayOwnsFirstWord ==
    \A o \in OverlayIds :
        Live(o) =>
            /\ word[overlays[o].instance] = CloneAddr(o)
            /\ overlays[o].original_table = OrigAddr

\* ------------------------------------------------------------------ C3
\* C3 (per-instance dedup): at no time do two live overlays exist for one
\* instance; every handle on the instance, and every install that has got
\* its overlay, holds the one the registry records.
C3_OneLiveOverlay ==
    \A i \in Instances :
        /\ Cardinality({o \in OverlayIds : overlays[o].instance = i /\ Live(o)}) <= 1
        /\ \A hd \in HandlesOn(i) : hd.ov = LiveEntry(i)
        /\ \A t \in Threads :
              (th[t].inst = i /\ th[t].ov # 0 /\ Live(th[t].ov)) => th[t].ov = LiveEntry(i)

\* Two threads are inside HookFunction::new on x at once and got the same overlay.
C3_Witness ==
    /\ th["t1"].op = "install" /\ th["t2"].op = "install"
    /\ th["t1"].inst = "x" /\ th["t2"].inst = "x"
    /\ th["t1"].ov # 0 /\ th["t1"].ov = th["t2"].ov
    /\ overlays[th["t1"].ov].strong = 2

\* ------------------------------------------------------------------ C4
\* Thread t takes the step.
StepOf(t) == th'[t] # th[t]

\* C4 (slot independence): a statement of an install or of a handle drop for
\* slot i changes neither the clone entry nor the closure-registry entry of
\* any other slot of the overlay (as long as the overlay is not released),
\* and a drop that leaves another handle on the overlay leaves the
\* instance's first word alone.
C4_SlotIndependence ==
    [][\A t \in Threads :
          (StepOf(t) /\ th[t].op \in {"install", "drop"} /\ th[t].ov # 0) =>
              LET o == th[t].ov IN
              /\ overlays'[o].st # "freed" =>
                    \A j \in 0..TableLen :
                        j # th[t].slot =>
                            /\ overlays'[o].closures[j] = overlays[o].closures[j]
                            /\ j < Len(overlays[o].new_table) =>
                                  /\ j < Len(overlays'[o].new_table)
                                  /\ overlays'[o].new_table[j + 1] = overlays[o].new_table[j + 1]
              /\ (th[t].op = "drop" /\ \E hd \in handles : hd.ov = o) => word' = word
      ]_vars

\* The slot-0 handle's drop has restored slot 0 while slot 1 is hooked by a
\* live handle: slot 1 still holds its trampoline and closure, and the first
\* word still points at the clone.
C4_Witness ==
    \E t \in Threads :
        /\ th[t].op = "drop" /\ th[t].pc = "arc_release" /\ th[t].slot = 0
        /\ \E hd \in handles :
              /\ hd.ov = th[t].ov /\ hd.index = 1
              /\ overlays[hd.ov].closures[1] = hd.box
              /\ overlays[hd.ov].new_table[2].kind = "tramp"
              /\ overlays[hd.ov].new_table[1] = OrigFn(0)
              /\ word[overlays[hd.ov].instance] = CloneAddr(hd.ov)

\* ------------------------------------------------------------------ C5
\* C5 (overlay consistency): whenever the overlay's mutex is free, each slot
\* below the table length is absent from the closure registry exactly when
\* its clone entry equals original_table[slot], and a slot present in the
\* registry holds the trampoline emitted for the closure stored there.
C5_OverlayConsistent ==
    \A o \in OverlayIds :
        (Live(o) /\ overlays[o].lock = NoThread) =>
            \A s \in 0..(Len(overlays[o].new_table) - 1) :
                LET b == overlays[o].closures[s] IN
                /\ (b = NoBox) <=> (overlays[o].new_table[s + 1] = ReadEntry(overlays[o].original_table, s))
                /\ (b # NoBox) => overlays[o].new_table[s + 1] = Trampoline(b.thr, b.ctype, s)

\* ------------------------------------------------------------------ C6
\* C6 (range check): an install on a table of length TableLen ends with the
\* SlotOutOfRange error for every slot >= TableLen, slot == TableLen
\* included, and is not refused for its slot when slot < TableLen; no
\* out-of-range slot ends in a crash.
C6_SlotRangeChecked ==
    \A t \in Threads :
        (th[t].op = "install" /\ th[t].res # "none") =>
            /\ th[t].slot >= TableLen => th[t].res = "SlotOutOfRange"
            /\ th[t].slot < TableLen => th[t].res \in {"ok", "CodeGenError"}

\* ------------------------------------------------------------------ C7
\* C7 (no partial installation): when HookFunction::new returns an error,
\* the instance's first word, the clone's entries, the closure registry and
\* the set of boxed closures are what they were when it was called.
C7_NoPartialInstall ==
    \A t \in Threads :
        (th[t].op = "install" /\ th[t].pc = "ret" /\ th[t].res # "ok") =>
            Snapshot(th[t].inst) = snap

\* ------------------------------------------------------------------ C8
\* C8 (two instances, one table): whatever is installed and dropped on x,
\* the first word of y stays the address of the original table, the
\* original table's entries stay what they were, and a call through y runs
\* the target's own function, never a trampoline.
C8_SharedTableIndependent ==
    /\ word["y"] = OrigAddr
    /\ orig_mem = TrueTable
    /\ \A t \in Threads :
          (th[t].op = "call" /\ th[t].inst = "y") =>
              /\ th[t].pc # "aborted"
              /\ ~th[t].hooked
              /\ th[t].pc = "ret" => th[t].ret = OrigResult(th[t].slot, "y", th[t].args)

\* A call through slot 0 of y has returned while slot 0 of x is hooked.
C8_Witness ==
    \E t \in Threads :
        /\ th[t].op = "call" /\ th[t].inst = "y" /\ th[t].pc = "ret" /\ th[t].slot = 0
        /\ \E hd \in HandlesOn("x") :
              /\ hd.index = 0
              /\ word["x"] = CloneAddr(hd.ov)
              /\ overlays[hd.ov].new_table[1].kind = "tramp"

\* ------------------------------------------------------------------ C9
\* C9 (round trip): the context of a dispatch for slot s carries
\* original_fn = original_table[s] of the receiver's overlay, which is the
\* target's own function of slot s, and a closure that only delegates to
\* call_original returns what the unhooked slot returns for the same
\* receiver and arguments.
C9_RoundTrip ==
    \A t \in Threads :
        (th[t].op = "call" /\ th[t].hooked) =>
            /\ th[t].pc = "run_closure" =>
                  /\ th[t].original_fn = ReadEntry(overlays[th[t].ov].original_table, th[t].slot)
                  /\ th[t].original_fn = OrigFn(th[t].slot)
            /\ (th[t].pc \in {"arc_release", "ret"} /\ th[t].closure.ctype = "delegate") =>
                  th[t].ret = OrigResult(th[t].slot, th[t].inst, th[t].args)

\* A call of a slot hooked by the delegating closure has returned.
C9_Witness ==
    \E t \in Threads :
        /\ th[t].op = "call" /\ th[t].hooked /\ th[t].pc = "ret"
        /\ th[t].closure.ctype = "delegate"
        /\ th[t].ret.fn = th[t].slot

\* ------------------------------------------------------------------ C10
\* Live handles for slot s of instance i.
HandlesOnSlot(i, s) == {hd \in HandlesOn(i) : hd.index = s}

\* C10 (dispatch routing): a call through slot s of x made while a hook is
\* installed on the slot (the closure registry of x's live overlay has an
\* entry for s) reaches the dispatcher, which finds that overlay without
\* building one, runs the closure stored for s and returns its result; a
\* call made when no handle for the slot is left runs original_table[s]
\* directly.  No call brings the process down.
C10_DispatchRouting ==
    \A t \in Threads :
        th[t].op = "call" =>
            /\ th[t].pc # "aborted"
            /\ th[t].pc \in {"arc_release", "ret"} =>
                  LET o == LiveEntry(th[t].inst) IN
                  IF o # 0 /\ overlays[o].closures[th[t].slot] # NoBox
                  THEN /\ th[t].hooked
                       /\ ~th[t].built
                       /\ th[t].closure = overlays[o].closures[th[t].slot]
                       /\ th[t].ret = RunClosureOf(th[t].closure.ctype, OrigFn(th[t].slot),
                                                   th[t].inst, th[t].args)
                  ELSE HandlesOnSlot(th[t].inst, th[t].slot) = {} =>
                          /\ ~th[t].hooked
                          /\ th[t].ret = OrigResult(th[t].slot, th[t].inst, th[t].args)

\* A call of a slot hooked by the constant closure has returned 7.
C10_Witness ==
    \E t \in Threads :
        /\ th[t].op = "call" /\ th[t].hooked /\ th[t].pc = "ret"
        /\ th[t].closure.ctype = "const7"
        /\ th[t].ret = ConstResult

\* ------------------------------------------------------------------ C11
\* C11 (ordering at teardown): the write that restores the instance's first
\* word to original_table comes before the clone's memory is released: an
\* overlay whose clone is released has been through its restoring write, and
\* in no state is an instance's first word the address of a released clone.
C11_RestoreBeforeFree ==
    /\ \A o \in OverlayIds :
          overlays[o].st = "freed" => word[overlays[o].instance] # CloneAddr(o)
    /\ \A i \in Instances :
          word[i] # OrigAddr => overlays[word[i]].st # "freed"

\* ------------------------------------------------------------------ C12
\* C12 (shared ownership): under every interleaving of installs, drops and
\* dispatches, an overlay that a live handle refers to is not torn down: it
\* still counts a reference, its Drop has not run, its clone is not
\* released, and no thread is inside the teardown of it.
C12_NoTeardownUnderHandle ==
    \A hd \in handles :
        /\ overlays[hd.ov].strong >= 1
        /\ overlays[hd.ov].st = "alive"
        /\ \A t \in Threads :
              th[t].pc \in {"drop_hook_instance", "free_fields"} => th[t].ov # hd.ov

\* A dispatch through a hooked slot of x has released its reference and
\* returned while a handle on the overlay is live and x still points at the clone.
C12_Witness ==
    \E t \in Threads, hd \in handles :
        /\ th[t].op = "call" /\ th[t].hooked /\ th[t].pc = "ret"
        /\ overlays[hd.ov].strong = 1
        /\ word[overlays[hd.ov].instance] = CloneAddr(hd.ov)

\* ------------------------------------------------------------------ C13
\* C13 (destroyed with the last handle): once the drop of the last handle
\* on an instance has returned, the instance's first word is the address of
\* the original table, also when the drop was made by a hook closure while a
\* dispatch on that instance is in progress.
C13_LastDropRestores ==
    \A t \in Threads :
        (th[t].op = "drop" /\ th[t].pc = "ret" /\ HandlesOn(th[t].inst) = {}) =>
            word[th[t].inst] = OrigAddr

\* C13 as amended (destroyed with the last reference): once a host
\* operation has returned with no handle left on the instance and nothing
\* else under way, the instance's first word is the original_table of the
\* overlay; when the last handle is dropped by a hook closure during a
\* dispatch on the instance, the dispatch's context still owns the overlay:
\* the drop returns with the first word still at the clone, and the word is
\* restored by the time the dispatch has returned.
C13_LastReferenceRestores ==
    \A t \in Threads :
        /\ (th[t].pc = "ret" /\ stack[t] = <<>> /\ HandlesOn(th[t].inst) = {}
               /\ registry[th[t].inst] # 0) =>
              /\ word[th[t].inst] = overlays[registry[th[t].inst]].original_table
              /\ word[th[t].inst] = OrigAddr
              /\ overlays[registry[th[t].inst]].st = "freed"
        /\ (th[t].pc = "ret" /\ th[t].op = "drop" /\ stack[t] # <<>>) =>
              LET o == stack[t][1].ov IN
              /\ overlays[o].st = "alive"
              /\ overlays[o].strong >= 1
              /\ word[th[t].inst] = CloneAddr(o)

\* A dispatch whose closure dropped the last handle on x has returned: the
\* overlay is gone and x points at the original table again.
C13_Witness ==
    \E t \in Threads :
        /\ th[t].op = "call" /\ th[t].hooked /\ th[t].pc = "ret" /\ stack[t] = <<>>
        /\ th[t].closure.ctype = "drop_handle"
        /\ HandlesOn(th[t].inst) = {}
        /\ word[th[t].inst] = OrigAddr
        /\ overlays[registry[th[t].inst]].st = "freed"

\* ------------------------------------------------------------------ C14
\* C14 (closure ownership): a boxed closure stays allocated exactly as long
\* as it is owned: every closure-registry entry points at an allocated box,
\* and every allocated box is the entry of some slot of a live overlay or
\* belongs to an install that is about to store it; so a box is released by
\* the drop of its handle, by its replacement and by a failing install, and
\* none is left once all handles are dropped.
C14_ClosureOwnership ==
    /\ \A o \in OverlayIds, k \in 0..TableLen :
          (overlays[o].st = "alive" /\ overlays[o].closures[k] # NoBox) =>
              overlays[o].closures[k] \in boxes
    /\ \A b \in boxes :
          \/ \E o \in OverlayIds, k \in 0..TableLen :
                overlays[o].st = "alive" /\ overlays[o].closures[k] = b
          \/ \E t \in Threads :
                th[t].op = "install" /\ th[t].pc = "closures_insert" /\ th[t].closure = b

\* ------------------------------------------------------------------ C15
\* C15 (many hooks of one shape): an install on a slot of the table succeeds
\* also when the thread's JIT module already holds a trampoline emitted for
\* the same closure type (for another slot, or for a hook dropped since):
\* it does not end in a code-generation error, and the slot then holds a
\* trampoline with its own slot index.
C15_SameShapeInstalls ==
    \A t \in Threads :
        (th[t].op = "install" /\ th[t].res # "none" /\ th[t].slot < TableLen) =>
            /\ th[t].res = "ok"
            /\ \E hd \in HandlesOn(th[t].inst) :
                  /\ hd.index = th[t].slot /\ hd.box.ctype = th[t].ctype
                  /\ overlays[hd.ov].new_table[hd.index + 1].kind = "tramp"
                  /\ overlays[hd.ov].new_table[hd.index + 1].idx = hd.index

\* ------------------------------------------------------------------ C16
\* The mutexes thread t holds.
LocksHeldBy(t) ==
    {o \in OverlayIds : overlays[o].lock = t} \cup (IF registry_lock = t THEN {0} ELSE {})

\* The re-entrant runs with a scheduler that keeps running a thread that has
\* a statement to execute.
SpecReFair ==
    SpecRe /\ \A t \in ReThreads : WF_vars(HookSteps(t) \/ CallSteps(t) \/ ReSteps(t))

\* C16 (re-entrancy lock discipline): when the dispatcher starts the
\* closure, and for as long as the closure runs, the dispatcher's thread
\* holds no mutex on behalf of the dispatch; so an install, a handle drop or
\* a hooked call that the closure makes on the same instance finds the
\* overlay's and the registry's mutex free when it reaches them, goes
\* through, and the process is not brought down ...
ClosureRunsUnlocked ==
    \A t \in Threads :
        /\ th[t].pc = "run_closure" => LocksHeldBy(t) = {}
        /\ stack[t] # <<>> =>
              /\ th[t].pc # "aborted"
              /\ th[t].pc = "lock_overlay" => overlays[th[t].ov].lock = NoThread
              /\ th[t].pc = "for_instance" => registry_lock = NoThread
              /\ th[t].pc \in {"ret", "in_closure", "vcall"} => LocksHeldBy(t) = {}

\* ... and every operation a closure starts comes back to the closure.
C16_ReentrancyLockDiscipline ==
    /\ []ClosureRunsUnlocked
    /\ \A t \in Threads : (stack[t] # <<>>) ~> (stack[t] = <<>>)

\* A closure running for slot 0 of x has installed a hook on slot 1 of x:
\* HookFunction::new returned Ok inside the dispatch.
C16_Witness ==
    \E t \in Threads :
        /\ stack[t] # <<>>
        /\ stack[t][1].closure.ctype = "install_hook"
        /\ th[t].op = "install" /\ th[t].pc = "ret" /\ th[t].res = "ok"
        /\ th[t].inst = stack[t][1].inst
        /\ overlays[stack[t][1].ov].closures[1] # NoBox

\* ------------------------------------------------------------------ C17
\* C17 (re-entrancy composition): when the closure of slot i calls slot
\* j # i through the instance, the dispatch of j runs while the dispatch of i
\* is suspended inside its closure (i was dispatched first, j returns
\* first); each of the two dispatches has the slot index, the closure and
\* the original function of its own slot, on the same overlay; the call of j
\* returns what the closure of j returns, and the closure of i returns with it.
C17_Composition ==
    \A t \in Threads :
        /\ LET d == Len(stack[t]) IN
           (d > 0 /\ th[t].op = "call" /\ stack[t][d].closure.ctype = "call_slot1"
                  /\ th[t].slot # stack[t][d].slot) =>
               LET outer == stack[t][d] IN
               /\ outer.pc = "in_closure" /\ outer.hooked
               /\ outer.index = outer.slot
               /\ outer.original_fn = OrigFn(outer.slot)
               /\ th[t].inst = outer.inst /\ th[t].args = outer.args
               /\ (th[t].hooked /\ th[t].pc = "run_closure") =>
                     /\ th[t].ov = outer.ov
                     /\ th[t].index = th[t].slot
                     /\ th[t].closure = overlays[th[t].ov].closures[th[t].slot]
                     /\ th[t].closure # outer.closure
                     /\ th[t].original_fn = OrigFn(th[t].slot)
               /\ th[t].pc = "ret" =>
                     th[t].ret = IF th[t].hooked THEN ConstResult
                                 ELSE OrigResult(th[t].slot, th[t].inst, th[t].args)
        /\ (th[t].op = "call" /\ th[t].hooked /\ th[t].closure.ctype = "call_slot1"
               /\ th[t].pc \in {"arc_release", "ret"}) =>
              th[t].ret \in {ConstResult, OrigResult(1, th[t].inst, th[t].args)}

\* With hooks on slots 0 and 1 of x, a call of slot 0 has returned 7: the
\* closure of slot 0 called slot 1, whose closure returned 7.
C17_Witness ==
    \E t \in Threads :
        /\ th[t].op = "call" /\ th[t].slot = 0 /\ th[t].hooked /\ th[t].pc = "ret"
        /\ stack[t] = <<>>
        /\ th[t].closure.ctype = "call_slot1"
        /\ th[t].ret = ConstResult
        /\ overlays[LiveEntry(th[t].inst)].closures[1] = Box(t, "const7")

\* ------------------------------------------------------------------ C18
\* The call of execute_plan has returned (or ended the thread).
PlanDone == plan.pc = "done"

\* C18 (checked add): execute_plan with one Add action returns
\* address + offset when the sum is in 0..UsizeMax, and otherwise fails with
\* the ArithmeticOverflow error, whose message carries the address and the
\* offset; it never returns a wrapped address.
C18_CheckedAdd ==
    (PlanDone /\ Len(plan.actions) = 1 /\ plan.actions[1].action = "Add") =>
        LET sum == plan.address + plan.actions[1].offset IN
        IF sum \in 0..UsizeMax
        THEN plan.result.kind = "ok" /\ plan.result.address = sum
        ELSE /\ plan.result.kind = "err"
             /\ plan.result.err.kind = "ArithmeticOverflow"
             /\ plan.result.err.carries = <<plan.address, plan.actions[1].offset>>

\* ------------------------------------------------------------------ C19
\* C19 (custom actions): a plan whose first action is Custom { name } fails
\* with the UnknownCustomAction error for that name when no action table is
\* supplied or the table has no such key, calling no custom function; when
\* the key is present, the function stored under it is called with the
\* current address: its error is returned to the caller, and its result is
\* the new address.
C19_CustomAction ==
    (PlanDone /\ Len(plan.actions) >= 1 /\ plan.actions[1].action = "Custom") =>
        LET name == plan.actions[1].name
            table == plan.custom_actions
            r == plan.result
        IN
        IF ~table.some \/ name \notin DOMAIN table.map
        THEN /\ r.kind = "err"
             /\ r.err = [kind |-> "UnknownCustomAction", carries |-> <<name>>]
             /\ r.calls = <<>>
        ELSE LET f == table.map[name] IN
             /\ r.calls # <<>> /\ r.calls[1] = f
             /\ f = "fail" => r.kind = "err" /\ r.err = [kind |-> "CustomError", carries |-> <<f>>]
             /\ (f = "succ" /\ Len(plan.actions) = 1) =>
                   r.kind = "ok" /\ r.address = Wrap(plan.address + 1)
             /\ (f = "zero" /\ Len(plan.actions) = 1) => r.kind = "ok" /\ r.address = 0

\* Custom { name: "k2" } with a table that holds only "k1" has failed, and
\* so has a Custom action with no table; a present key has been applied.
C19_Witness ==
    /\ PlanDone
    /\ plan.actions = <<Custom("k2")>>
    /\ plan.custom_actions = Some([k \in {"k1"} |-> "succ"])
    /\ plan.result.kind = "err"
    /\ plan.result.err.kind = "UnknownCustomAction"

\* ------------------------------------------------------------------ C20
\* The action kinds with no implementation on the architecture.
Unsupported(arch) ==
    IF arch = "x86_64"
    THEN {"ResolvePageAndOffsetAddress", "ImmediateFromInstructionAtAddress",
          "ResolveImmediateRelativeAddress", "ResolvePageOffsetRelativeAddress"}
    ELSE {"ResolveRelative", "Dereference"}

\* C20 (unsupported actions): when the first action of a plan, or the
\* action after a successful Add, is of a kind with no implementation on
\* the architecture, execute_plan returns the UnsupportedAction error for
\* that action; it has read no memory, called no custom function, and the
\* address is the one the action was given.
C20_UnsupportedAction ==
    PlanDone =>
        /\ (Len(plan.actions) >= 1 /\ plan.actions[1].action \in Unsupported(plan.arch)) =>
              /\ plan.result.kind = "err"
              /\ plan.result.err = [kind |-> "UnsupportedAction", carries |-> <<plan.actions[1]>>]
              /\ plan.result.reads = {} /\ plan.result.calls = <<>>
              /\ plan.result.address = plan.address
        /\ (Len(plan.actions) = 2 /\ plan.actions[1].action = "Add"
               /\ plan.address + plan.actions[1].offset \in 0..UsizeMax
               /\ plan.actions[2].action \in Unsupported(plan.arch)) =>
              /\ plan.result.kind = "err"
              /\ plan.result.err = [kind |-> "UnsupportedAction", carries |-> <<plan.actions[2]>>]
              /\ plan.result.reads = {}
              /\ plan.result.address = plan.address + plan.actions[1].offset

\* Dereference has been refused on aarch64 at a mapped address.
C20_Witness ==
    /\ PlanDone
    /\ plan.arch = "aarch64" /\ plan.address = 8
    /\ plan.actions = <<Dereference>>
    /\ plan.result.err.kind = "UnsupportedAction"
    /\ plan.result.reads = {}

\* ------------------------------------------------------------------ C21
\* Where a thread is between lock() and the release of the guard.
CriticalPcs ==
    {"hook_function_with_closure", "closures_insert", "unhook_function", "closures_remove", "lookup"}

\* The threads inside the critical section of overlay o.
InCritical(o) == {t \in Threads : th[t].ov = o /\ th[t].pc \in CriticalPcs}

\* C21 (serialized by the overlay mutex): at most one thread is between the
\* lock and the unlock of an overlay, and it holds the mutex, so the two
\* writes of an install (clone entry, closure entry) and of a drop (clone
\* entry restored, closure entry removed) have no install, drop or
\* dispatcher lookup on that overlay between them: the first write still
\* stands when the second is made; and two installs on distinct slots of one
\* instance, also when they overlap, both take effect.
C21_SerializedByOverlayMutex ==
    /\ \A o \in OverlayIds :
          /\ Cardinality(InCritical(o)) <= 1
          /\ \A t \in InCritical(o) : overlays[o].lock = t
    /\ \A t \in Threads :
          /\ (Running /\ th[t].pc = "closures_insert") =>
                overlays[th[t].ov].new_table[th[t].slot + 1] = Trampoline(t, th[t].ctype, th[t].slot)
          /\ (Running /\ th[t].pc = "closures_remove") =>
                overlays[th[t].ov].new_table[th[t].slot + 1].kind # "tramp"
    /\ \A h1 \in handles, h2 \in handles :
          (h1.ov = h2.ov /\ h1.index # h2.index /\ boxes = {h1.box, h2.box}
             /\ overlays[h1.ov].lock = NoThread) =>
              \A h \in {h1, h2} :
                  /\ overlays[h.ov].closures[h.index] = h.box
                  /\ overlays[h.ov].new_table[h.index + 1] = Trampoline(h.box.thr, h.box.ctype, h.index)

\* Two threads were inside HookFunction::new on x at the same time, for
\* slots 0 and 1, and both have returned their handle.
C21_Witness ==
    /\ th["t1"].op = "install" /\ th["t2"].op = "install"
    /\ th["t1"].pc = "ret" /\ th["t2"].pc = "ret"
    /\ th["t1"].res = "ok" /\ th["t2"].res = "ok"
    /\ th["t1"].slot # th["t2"].slot
    /\ Cardinality(HandlesOn("x")) = 2
    /\ \A hd \in HandlesOn("x") : overlays[hd.ov].new_table[hd.index + 1].kind = "tramp"

\* ------------------------------------------------------------------ C22
\* C22 (re-install after teardown): once every handle on an instance has
\* been dropped and nothing is under way, the registry entry of the instance
\* is a dead weak reference; an install that then finds no live entry builds
\* a fresh overlay, which replaces the entry in the registry: its
\* original_table is the instance's original table, its clone is a copy of
\* that table, its closure registry is empty, and the instance points at
\* the clone.
C22_ReinstallFresh ==
    /\ [](\A i \in Instances :
            (AtRest /\ HandlesOn(i) = {} /\ registry[i] # 0) => ~Live(registry[i]))
    /\ [][\A t \in Threads :
            (th[t].pc = "new_write" /\ th'[t].pc = "lock_overlay") =>
                LET o == th'[t].ov IN
                /\ registry[th[t].inst] # o
                /\ registry'[th[t].inst] = o
                /\ overlays'[o].original_table = OrigAddr
                /\ overlays'[o].new_table = [k \in 1..TableLen |-> OrigFn(k - 1)]
                /\ \A k \in 0..TableLen : overlays'[o].closures[k] = NoBox
                /\ word'[th[t].inst] = CloneAddr(o)]_vars

\* ------------------------------------------------------------------ C23
\* The tables a caller may hand over: a block of TableLen + 1 words, each a
\* function address or the null word; the block may hold no null word at all.
Tables == [1..(TableLen + 1) -> {"fn", "null"}]

TableOf(tab) == [k \in 1..(TableLen + 1) |-> IF tab[k] = "null" THEN Null ELSE OrigFn(k - 1)]

\* HookInstance::new on an instance whose table is any of Tables.
InitTab ==
    /\ word = [i \in Instances |-> OrigAddr]
    /\ \E tab \in Tables : orig_mem = TableOf(tab)
    /\ overlays = <<>>
    /\ registry = [i \in Instances |-> 0]
    /\ registry_lock = NoThread
    /\ jit = [t \in Threads |-> {}]
    /\ boxes = {}
    /\ handles = {}
    /\ th = [t \in Threads |-> Idle]
    /\ nops = 0
    /\ snap = NoSnap
    /\ stack = [t \in Threads |-> <<>>]
    /\ emit = NoEmit
    /\ plan = NoPlan

\* One thread installs and drops hooks on x, one operation at a time.
NextTab ==
    \E t \in ReThreads :
        \/ HookSteps(t)
        \/ \E i \in Hooked, s \in InstallSlots, c \in ClosureTypes :
              StartInstall(t, i, s, c, TRUE)
        \/ \E hd \in handles : StartDrop(t, hd, TRUE)

SpecTab == InitTab /\ [][NextTab]_vars

\* The index of the first null word of the table at a, within its block; -1
\* when the block holds none.
FirstNull(a) ==
    LET z == NullsBelow(a, TableLen + 1)
    IN  IF z = {} THEN -1 ELSE CHOOSE k \in z : \A j \in z : k <= j

\* C23 (table length and layout error): overlay construction takes as the
\* table's length the index of the first zero word of the original table and
\* builds a clone of exactly that length whose entries equal the original's;
\* when no zero word occurs within the bound (here the table's block of
\* TableLen + 1 words) construction aborts: it reads no word past the bound,
\* builds no overlay and leaves the instance's first word as it was.
C23_TableLength ==
    [][\A t \in Threads :
          (th[t].pc = "new_read" /\ th'[t] # th[t]) =>
              LET a == get_table(th[t].inst) IN
              IF FirstNull(a) >= 0
              THEN /\ th'[t].pc = "new_write"
                   /\ th'[t].rd_orig = a
                   /\ Len(th'[t].rd_tab) = FirstNull(a)
                   /\ \A k \in 1..FirstNull(a) : th'[t].rd_tab[k] = ReadEntry(a, k - 1)
              ELSE /\ th'[t].pc # "new_write"
                   /\ th'[t].res = "TableLayoutError"
                   /\ word' = word]_vars

\* The overlay of a table with a null word in the middle was built.
C23_Witness ==
    /\ FirstNull(OrigAddr) = 1
    /\ Len(overlays) >= 1
    /\ Len(overlays[1].new_table) = 1

\* ------------------------------------------------------------------ make_trampoline, generated code
\* impl_func!() .. impl_func!(a: A, b: B, c: C, d: D, e: E): closures of up
\* to five arguments behind the receiver.
MaxArity == 5

\* Argument and return types of the hooked function (Rust types).
ArgTypes == {"i32", "f64"}

RetTypes == {"usize", "f32"}

This == "*mut TThis"

\* cranelift_abi::<T>(): the AbiParam of a Rust type.
cranelift_abi(T) ==
    CASE T \in {"*mut TThis", "*const T", "&T", "&mut T", "usize", "isize"} -> "I64"
      [] T \in {"u32", "i32"} -> "I32"
      [] T \in {"u16", "i16"} -> "I16"
      [] T \in {"u8", "i8"} -> "I8"
      [] T = "f32" -> "F32"
      [] T = "f64" -> "F64"

\* original_cranelift_sig: returns TRet; params: the receiver, then the arguments.
original_cranelift_sig(TRet, Args) ==
    [returns |-> <<cranelift_abi(TRet)>>,
     params |-> <<cranelift_abi(This)>> \o [k \in 1..Len(Args) |-> cranelift_abi(Args[k])]]

\* thunk_cranelift_sig: returns TRet; params: I64, the receiver, then the arguments.
thunk_cranelift_sig(TRet, Args) ==
    [returns |-> <<cranelift_abi(TRet)>>,
     params |-> <<"I64">> \o <<cranelift_abi(This)>> \o [k \in 1..Len(Args) |-> cranelift_abi(Args[k])]]

\* Operands of the generated code: an integer constant, a block parameter.
iconst(ty, n) == [op |-> "iconst", ty |-> ty, n |-> n]

block_param(k) == [op |-> "param", ty |-> "-", n |-> k]

\* The id passed behind the function's parameters.
call_args_id_last(const_id, params) == params \o <<const_id>>

\* let mut call_args = vec![const_id]; call_args.extend_from_slice(params);
call_args(const_id, params) == <<const_id>> \o params

\* The function make_trampoline builds: its signature is the original's; it
\* calls the thunk indirectly with call_args under the thunk's signature and
\* returns result 0 of the call.
trampoline_function(TRet, Args, id) ==
    LET original_sig == original_cranelift_sig(TRet, Args)
        thunk_sig == thunk_cranelift_sig(TRet, Args)
        params == [k \in 1..Len(original_sig.params) |-> block_param(k)]
    IN  [signature |-> original_sig,
         call_sig |-> thunk_sig,
         call_args |-> call_args(iconst("I64", id), params),
         return_ |-> 1]

\* The value of an operand when the function runs on the values vals.
Operand(x, vals) == IF x.op = "iconst" THEN x.n ELSE vals[x.n]

\* The values the host passes: the receiver, then the arguments, all distinct.
Receiver == 50

ArgValue(k) == 100 + k

HostValues(n) == <<Receiver>> \o [k \in 1..n |-> ArgValue(k)]

\* What the dispatcher may return: one value.
ThunkResults == {<<7>>, <<8>>}

ArgLists == UNION {[1..n -> ArgTypes] : n \in 0..MaxArity}

\* A closure of some arity is about to be installed on slot id.
InitSig ==
    /\ word = [i \in Instances |-> OrigAddr]
    /\ orig_mem = [k \in 1..(TableLen + 1) |-> IF k <= TableLen THEN OrigFn(k - 1) ELSE Null]
    /\ overlays = <<>>
    /\ registry = [i \in Instances |-> 0]
    /\ registry_lock = NoThread
    /\ jit = [t \in Threads |-> {}]
    /\ boxes = {}
    /\ handles = {}
    /\ th = [t \in Threads |-> Idle]
    /\ nops = 0
    /\ snap = NoSnap
    /\ stack = [t \in Threads |-> <<>>]
    /\ plan = NoPlan
    /\ \E TRet \in RetTypes, Args \in ArgLists, id \in CallSlots :
          emit = [pc |-> "start", TRet |-> TRet, Args |-> Args, id |-> id]

\* f.make_trampoline(&mut module, index)
MakeTrampoline ==
    /\ emit.pc = "start"
    /\ emit' = [pc |-> "made", TRet |-> emit.TRet, Args |-> emit.Args, id |-> emit.id,
                func |-> trampoline_function(emit.TRet, emit.Args, emit.id)]
    /\ UNCHANGED <<word, orig_mem, overlays, registry, registry_lock, jit, boxes, handles, th,
                   nops, snap, stack, plan>>

\* The host calls the trampoline through the hooked slot: the thunk receives
\* the operands of the indirect call and the trampoline returns the call's
\* result.
CallTrampoline ==
    /\ emit.pc = "made"
    /\ \E results \in ThunkResults :
          emit' = [pc |-> "called", TRet |-> emit.TRet, Args |-> emit.Args, id |-> emit.id,
                   func |-> emit.func,
                   received |-> [k \in 1..Len(emit.func.call_args) |->
                                    Operand(emit.func.call_args[k], HostValues(Len(emit.Args)))],
                   results |-> results,
                   returned |-> results[emit.func.return_]]
    /\ UNCHANGED <<word, orig_mem, overlays, registry, registry_lock, jit, boxes, handles, th,
                   nops, snap, stack, plan>>

NextSig == MakeTrampoline \/ CallTrampoline

SpecSig == InitSig /\ [][NextSig]_vars

\* ------------------------------------------------------------------ C24
\* The ABI type the platform gives each Rust type of the hooked functions.
AbiOf(T) == IF T = "i32" THEN "I32" ELSE IF T = "f64" THEN "F64"
            ELSE IF T = "f32" THEN "F32" ELSE "I64"

\* C24 (trampoline signature and argument order): for every arity 0..5 the
\* signature under which the trampoline calls the dispatcher is the original
\* function's signature (the receiver, then the arguments; one result) with
\* one leading 64-bit integer parameter and the same return type; when the
\* trampoline is called, the dispatcher receives the slot index, the
\* receiver and the original arguments in their original order, and the
\* trampoline returns the dispatcher's single result.
C24_TrampolineSignature ==
    /\ emit.pc \in {"made", "called"} =>
          LET original == [returns |-> <<AbiOf(emit.TRet)>>,
                           params |-> <<"I64">> \o [k \in 1..Len(emit.Args) |-> AbiOf(emit.Args[k])]]
          IN  /\ Len(emit.Args) \in 0..MaxArity
              /\ emit.func.signature = original
              /\ emit.func.call_sig.returns = original.returns
              /\ emit.func.call_sig.params = <<"I64">> \o original.params
    /\ emit.pc = "called" =>
          /\ emit.received = <<emit.id, Receiver>> \o [k \in 1..Len(emit.Args) |-> ArgValue(k)]
          /\ Len(emit.results) = 1
          /\ emit.returned = emit.results[1]

\* A closure of five arguments was installed and its trampoline called.
C24_Witness ==
    /\ emit.pc = "called"
    /\ Len(emit.Args) = MaxArity
    /\ emit.Args[1] # emit.Args[2]
    /\ emit.id = 1

\* ------------------------------------------------------------------ C25
\* C25 (a live handle keeps its slot hooked): for every live handle, outside
\* the critical sections of its overlay, the clone's entry at the handle's
\* slot is a trampoline and the closure registry has an entry for the slot,
\* whatever other installs and drops happened on the instance, a second
\* install on the same slot and the drop of either handle included.
C25_LiveHandleKeepsSlot ==
    \A hd \in handles :
        (Running /\ overlays[hd.ov].lock = NoThread /\ overlays[hd.ov].st = "alive") =>
            /\ hd.index < Len(overlays[hd.ov].new_table)
            /\ overlays[hd.ov].new_table[hd.index + 1].kind = "tramp"
            /\ closure(overlays[hd.ov], hd.index) # NoBox

\* ------------------------------------------------------------------ C26
\* The interleaved runs with a scheduler that keeps running a thread that has
\* a statement to execute.
SpecAllFair ==
    SpecAll /\ \A t \in Threads : WF_vars(HookSteps(t) \/ CallSteps(t))

\* Thread t is about to acquire, or is waiting for, a mutex.
Waiting(t) == Running /\ th[t].pc \in {"for_instance", "lock_overlay"}

\* Thread t runs the teardown of an overlay.
InTeardown(t) == th[t].pc \in {"drop_hook_instance", "free_fields"}

\* The order of the locks: a thread that reaches the overlay's mutex does not
\* hold the registry's, a thread that reaches the registry's mutex holds no
\* overlay's, and a thread in teardown holds none.
LockOrder ==
    \A t \in Threads :
        /\ th[t].pc = "lock_overlay" => registry_lock # t
        /\ th[t].pc \in {"for_instance", "new_read", "new_write"} =>
              \A o \in OverlayIds : overlays[o].lock # t
        /\ InTeardown(t) => LocksHeldBy(t) = {}

\* A step of a thread in teardown takes no mutex and waits for none.
TeardownTakesNoMutex ==
    \A t \in Threads :
        (InTeardown(t) /\ th'[t] # th[t]) =>
            /\ registry_lock' = registry_lock
            /\ \A o \in OverlayIds : overlays'[o].lock = overlays[o].lock

\* C26 (deadlock freedom): with installs, handle drops and dispatches of
\* several threads interleaved, the registry's mutex is never held while an
\* overlay's mutex is acquired, an overlay's mutex is never held while the
\* registry's is acquired, overlay teardown acquires no mutex and is never
\* kept waiting, and no thread waits forever on a mutex.
C26_DeadlockFreedom ==
    /\ []LockOrder
    /\ [](\A t \in Threads : (Running /\ InTeardown(t)) =>
                ENABLED (DropHookInstance(t) \/ FreeFields(t)))
    /\ [][TeardownTakesNoMutex]_vars
    /\ \A t \in Threads : Waiting(t) ~> ~Waiting(t)

\* A thread that came to drop a handle waits for the mutex of the overlay,
\* which the other thread holds inside an install.
C26_Witness ==
    \E t \in Threads, u \in Threads :
        /\ th[t].pc = "lock_overlay" /\ th[t].op = "drop"
        /\ overlays[th[t].ov].lock = u /\ u # t
        /\ th[u].pc = "closures_insert"

\* ------------------------------------------------------------------ C27
\* C27 (execute_plan is a left-to-right fold): an empty plan returns the
\* starting address unchanged; the first action is applied to the starting
\* address and the second to the address the first produced; the first
\* failing action ends the evaluation with its error, and no later action
\* (a custom callback included) is executed: nothing is read or called
\* beyond what the actions up to the failing one read and called.
C27_LeftToRightFold ==
    PlanDone =>
        LET r == plan.result
            n == Len(plan.actions)
            step(a, k) == execute_action(a, plan.actions[k], plan.custom_actions,
                                         plan.arch, plan.overflow_checks)
        IN
        /\ n = 0 => r = Ok(plan.address, {}, <<>>)
        /\ n >= 1 =>
              LET r1 == step(plan.address, 1) IN
              /\ r1.kind # "ok" => r = r1
              /\ (r1.kind = "ok" /\ n = 1) => r = r1
              /\ (r1.kind = "ok" /\ n >= 2) =>
                    LET r2 == step(r1.address, 2) IN
                    (r2.kind # "ok" \/ n = 2) =>
                        /\ r.kind = r2.kind /\ r.address = r2.address /\ r.err = r2.err
                        /\ r.reads = r1.reads \cup r2.reads
                        /\ r.calls = r1.calls \o r2.calls

\* Add { offset: -1 } has failed at address 0 and the custom action behind
\* it, whose key is in the table, was not called.
C27_Witness ==
    /\ PlanDone
    /\ plan.address = 0
    /\ plan.actions = <<Add(-1), Custom("k1")>>
    /\ plan.custom_actions = Some([k \in {"k1"} |-> "succ"])
    /\ plan.result.kind = "err" /\ plan.result.calls = <<>>

\* ------------------------------------------------------------------ C28
\* C28 (frame effect): overlay construction, install, restore, handle drop,
\* teardown and dispatch write no entry of the original table, which stays
\* as the target built it; of the instances, only the first word changes,
\* and only that of the instance whose overlay is being built or torn down.
C28_FrameEffect ==
    /\ [](orig_mem = TrueTable)
    /\ [][\A i \in Instances :
            word'[i] # word[i] =>
                \E t \in Threads :
                    /\ th'[t] # th[t]
                    /\ \/ th[t].pc = "new_write" /\ th[t].inst = i
                       \/ th[t].pc = "drop_hook_instance" /\ overlays[th[t].ov].instance = i]_vars

\* A hook was installed on x, called through, dropped and its overlay torn
\* down.
C28_Witness ==
    /\ AtRest
    /\ handles = {} /\ boxes # {}
    /\ Len(overlays) >= 1 /\ overlays[1].st = "freed"
    /\ \E t \in Threads : th[t].op = "call" /\ th[t].hooked /\ th[t].pc = "ret"

====
